---- MODULE Spec2Model ----
(***************************************************************************)
(* Model of src/graphics/view.rs: the borrowed View type, the owning       *)
(* ViewBox handle, and the native view objects they delegate to.           *)
(*                                                                         *)
(* The native heap maps handles (allocation identities) to view records.   *)
(* A ViewBox is a program variable ("slot") holding one handle.  An f32    *)
(* value is the pair <<m, e>> that stands for m / 2^e, with e = 0 or m     *)
(* odd, so that every value has one representation: F32(3) = <<3, 0>> is   *)
(* 3.0 and <<3, 1>> is 1.5.  RoundF32 is the binary32 rounding of an exact *)
(* result (exponent overflow and underflow are out of the model's range).  *)
(***************************************************************************)
EXTENDS Integers, Sequences, FiniteSets, TLC

\* ---------------------------------------------------------------- bounds
MaxBoxes == 2
MaxHandles == 3
MaxOps == 4
MaxMag == 1073741824

\* ------------------------------------------------------------- constants
F32Digits == 24

Null == 0
NoBox == -1
Slots == 1..MaxBoxes
Handles == 1..MaxHandles

\* ------------------------------------------------------------ input sets
F32(n) == <<n, 0>>
Vec(x, y) == <<F32(x), F32(y)>>
Rect(l, t, w, h) == <<F32(l), F32(t), F32(w), F32(h)>>

Points == {Vec(0, 0), Vec(2, 4)}
Offsets == {Vec(10, 10), Vec(-2, 0)}
Extents == {Vec(100, 100), Vec(4, 2)}
Rects == {Rect(1, 0, 3, 8), Rect(2, -2, 100, 100)}
Angles == {F32(350), F32(-30)}
Factors == {F32(1), F32(2)}
Viewports == {Rect(0, 0, 1, 1), <<F32(0), F32(0), <<1, 1>>, F32(1)>>}
BigAngles == {F32(20), F32(350), F32(-30)}
BigFactors == {F32(1), F32(2), F32(5), F32(4194305), <<1, 1>>}
ArithExtents == {Vec(100, 100), Vec(3, 5)}
ArithRotations == {F32(0), F32(350)}

VARIABLES heap, box, alloc, freed, from, unwinding, ops, last, trail

vars == <<heap, box, alloc, freed, from, unwinding, ops, last, trail>>

\* ------------------------------------------------------------ f32 values
Abs(n) == IF n < 0 THEN -n ELSE n

RECURSIVE Pow2(_)
Pow2(k) == IF k = 0 THEN 1 ELSE 2 * Pow2(k - 1)

RECURSIVE Ulp(_)
Ulp(m) == IF m < Pow2(F32Digits) THEN 1 ELSE 2 * Ulp(m \div 2)

\* the integer nearest to n that has at most F32Digits significant bits
\* (ties to even)
RoundMant(n) ==
  LET m == Abs(n)
      u == Ulp(m)
      q == m \div u
      r == m % u
      up == (2 * r > u) \/ (2 * r = u /\ q % 2 = 1)
      v == IF up THEN (q + 1) * u ELSE q * u
  IN IF n < 0 THEN -v ELSE v

\* the representation of m / 2^e
RECURSIVE Norm(_, _)
Norm(m, e) == IF e > 0 /\ m % 2 = 0 THEN Norm(m \div 2, e - 1) ELSE <<m, e>>

Max(i, j) == IF i >= j THEN i ELSE j

\* exact sum and product
Sum(a, b) ==
  LET e == Max(a[2], b[2])
  IN Norm(a[1] * Pow2(e - a[2]) + b[1] * Pow2(e - b[2]), e)
Prod(a, b) == Norm(a[1] * b[1], a[2] + b[2])

\* the f32 nearest to x (ties to even)
RoundF32(x) == Norm(RoundMant(x[1]), x[2])

AddF32(a, b) == RoundF32(Sum(a, b))
MulF32(a, b) == RoundF32(Prod(a, b))
\* x / 2.0
HalfF32(x) == Norm(x[1], x[2] + 1)

\* the products the model forms stay inside TLC's integers
InRange(a, k) == k[1] = 0 \/ Abs(a[1]) <= MaxMag \div Abs(k[1])

\* ------------------------------------------------- native view functions
FullViewport == Rect(0, 0, 1, 1)

Blank == [center |-> Vec(0, 0), size |-> Vec(0, 0), rotation |-> F32(0),
          viewport |-> Rect(0, 0, 0, 0)]

RectCenter(r) == <<AddF32(r[1], HalfF32(r[3])), AddF32(r[2], HalfF32(r[4]))>>
RectSize(r) == <<r[3], r[4]>>

sfView_create ==
  [center |-> Vec(0, 0), size |-> Vec(0, 0), rotation |-> F32(0),
   viewport |-> FullViewport]

sfView_createFromRect(r) ==
  [center |-> RectCenter(r), size |-> RectSize(r), rotation |-> F32(0),
   viewport |-> FullViewport]

sfView_copy(v) == v

sfView_getRotation(v) == <<v.rotation>>
sfView_getCenter(v) == v.center
sfView_getSize(v) == v.size
sfView_getViewport(v) == v.viewport

sfView_setRotation(v, angle) == [v EXCEPT !.rotation = angle]
sfView_rotate(v, angle) == [v EXCEPT !.rotation = AddF32(v.rotation, angle)]
sfView_zoom(v, factor) ==
  [v EXCEPT !.size = <<MulF32(v.size[1], factor), MulF32(v.size[2], factor)>>]
sfView_setCenter(v, c) == [v EXCEPT !.center = c]
sfView_setSize(v, s) == [v EXCEPT !.size = s]
sfView_move(v, o) ==
  [v EXCEPT !.center = <<AddF32(v.center[1], o[1]), AddF32(v.center[2], o[2])>>]
sfView_setViewport(v, vp) == [v EXCEPT !.viewport = vp]
sfView_reset(v, r) ==
  [v EXCEPT !.center = RectCenter(r), !.size = RectSize(r),
            !.rotation = F32(0)]

\* what a native create or copy can return: null, or a fresh allocation
NativeAlloc == {Null} \cup (IF alloc < MaxHandles THEN {alloc + 1} ELSE {})

\* ------------------------------------------------------ View and ViewBox
View_rotation(v) == sfView_getRotation(v)
View_center(v) == sfView_getCenter(v)
View_size(v) == sfView_getSize(v)
View_viewport(v) == sfView_getViewport(v)

\* mutants: each is the definition that follows it with one plausible slip
View_rotate_set(v, angle) == sfView_setRotation(v, angle)
View_zoom_set(v, factor) == sfView_setSize(v, <<factor, factor>>)
View_set_size_center(v, s) == sfView_setCenter(v, s)
View_reset_all(v, r) == sfView_createFromRect(r)

View_set_rotation(v, angle) == sfView_setRotation(v, angle)
View_rotate(v, angle) == sfView_rotate(v, angle)
View_zoom(v, factor) == sfView_zoom(v, factor)
View_set_center(v, c) == sfView_setCenter(v, c)
View_set_size(v, s) == sfView_setSize(v, s)
View_move_(v, o) == sfView_move(v, o)
View_set_viewport(v, vp) == sfView_setViewport(v, vp)
View_reset(v, r) == sfView_reset(v, r)

ViewBox_default_rect == sfView_createFromRect(Rect(0, 0, 2, 2))
View_new_nosize(c, s) == sfView_setCenter(sfView_create, c)
View_from_rect_corner(r) == sfView_setSize(sfView_setCenter(sfView_create, <<r[1], r[2]>>), RectSize(r))
is_null_never(p) == FALSE
to_owned_handle_alias(selfH, copyH) == selfH
ViewBox_drop_none(h) == {}

\* the native view a fresh ViewBox owns
ViewBox_default == sfView_create
View_new(c, s) == View_set_size(View_set_center(ViewBox_default, c), s)
View_from_rect(r) == sfView_createFromRect(r)
View_to_owned(v) == sfView_copy(v)
ViewBox_clone(v) == View_to_owned(v)

\* view.is_null(): the test behind assert!(!view.is_null()) and the panic!
is_null(p) == p = Null

\* the handle to_owned stores in the ViewBox it returns: the copy's
to_owned_handle(selfH, copyH) == copyH

\* the handles drop passes to sfView_destroy
ViewBox_drop(h) == {h}

\* ------------------------------------------------------------- the state
NoOp == [op |-> "init", self |-> 0, out |-> 0, arg |-> <<>>, ok |-> TRUE,
         val |-> <<>>, nat |-> NoBox, pre |-> Blank]

Init ==
  /\ heap = [h \in Handles |-> Blank]
  /\ box = [s \in Slots |-> NoBox]
  /\ alloc = 0
  /\ freed = [h \in Handles |-> 0]
  /\ from = [s \in Slots |-> 0]
  /\ unwinding = FALSE
  /\ ops = 0
  /\ last = NoOp
  /\ trail = <<>>

Live == {s \in Slots : box[s] # NoBox}
FreeSlots == Slots \ Live
NextSlot == CHOOSE s \in FreeSlots : \A t \in FreeSlots : s <= t
ViewOf(s) == heap[box[s]]

Running == ~unwinding /\ ops < MaxOps

\* a failed assert! or panic!: nothing is built, the stack unwinds
Panic(name, s, arg) ==
  /\ unwinding' = TRUE
  /\ last' = [op |-> name, self |-> s, out |-> 0, arg |-> arg, ok |-> FALSE,
              val |-> <<>>, nat |-> Null, pre |-> Blank]
  /\ ops' = ops + 1
  /\ trail' = <<>>
  /\ UNCHANGED <<heap, box, alloc, freed, from>>

\* a constructor: the native call returns p, the ViewBox owns handle h
Build(name, s, arg, p, h, v) ==
  IF is_null(p)
  THEN Panic(name, s, arg)
  ELSE /\ heap' = [t \in Handles |-> IF t = p THEN v ELSE heap[t]]
       /\ alloc' = IF p = Null THEN alloc ELSE p
       /\ box' = [box EXCEPT ![NextSlot] = h]
       /\ from' = [from EXCEPT ![NextSlot] = s]
       /\ last' = [op |-> name, self |-> s, out |-> NextSlot, arg |-> arg,
                   ok |-> TRUE, val |-> <<>>, nat |-> p, pre |-> Blank]
       /\ ops' = ops + 1
       /\ trail' = <<>>
       /\ UNCHANGED <<freed, unwinding>>

Default ==
  /\ Running /\ FreeSlots # {}
  /\ \E p \in NativeAlloc : Build("default", 0, <<>>, p, p, ViewBox_default)

New ==
  /\ Running /\ FreeSlots # {}
  /\ \E c \in Points, s \in Extents, p \in NativeAlloc :
       Build("new", 0, c \o s, p, p, View_new(c, s))

FromRect ==
  /\ Running /\ FreeSlots # {}
  /\ \E r \in Rects, p \in NativeAlloc :
       Build("from_rect", 0, r, p, p, View_from_rect(r))

ToOwned ==
  /\ Running /\ FreeSlots # {}
  /\ \E s \in Live, p \in NativeAlloc :
       Build("to_owned", s, <<>>, p, to_owned_handle(box[s], p),
             View_to_owned(ViewOf(s)))

Clone ==
  /\ Running /\ FreeSlots # {}
  /\ \E s \in Live, p \in NativeAlloc :
       Build("clone", s, <<>>, p, to_owned_handle(box[s], p),
             ViewBox_clone(ViewOf(s)))

\* a ViewBox goes out of scope (also while a panic unwinds)
Drop ==
  /\ unwinding \/ ops < MaxOps
  /\ \E s \in Live :
       /\ freed' = [h \in Handles |->
                      IF h \in ViewBox_drop(box[s]) THEN freed[h] + 1
                      ELSE freed[h]]
       /\ heap' = [h \in Handles |->
                      IF h \in ViewBox_drop(box[s]) THEN Blank ELSE heap[h]]
       /\ box' = [box EXCEPT ![s] = NoBox]
       /\ from' = [t \in Slots |-> IF t = s \/ from[t] = s THEN 0 ELSE from[t]]
       /\ last' = [op |-> "drop", self |-> s, out |-> 0, arg |-> <<box[s]>>,
                   ok |-> TRUE, val |-> <<>>, nat |-> NoBox, pre |-> Blank]
       /\ ops' = ops + 1
       /\ trail' = <<>>
       /\ UNCHANGED <<alloc, unwinding>>

\* the last two rotate / set_rotation / zoom calls, when consecutive on one view
Track(name, s, arg) ==
  LET e == [op |-> name, self |-> s, arg |-> arg, pre |-> ViewOf(s)]
  IN IF trail # <<>> /\ trail[Len(trail)].self = s
     THEN <<trail[Len(trail)], e>>
     ELSE <<e>>

Mutate(name, s, arg, v, tr) ==
  /\ heap' = [heap EXCEPT ![box[s]] = v]
  /\ last' = [op |-> name, self |-> s, out |-> 0, arg |-> arg, ok |-> TRUE,
              val |-> <<>>, nat |-> NoBox, pre |-> ViewOf(s)]
  /\ ops' = ops + 1
  /\ trail' = tr
  /\ UNCHANGED <<box, alloc, freed, from, unwinding>>

SetRotation(As) ==
  /\ Running
  /\ \E s \in Live, a \in As :
       Mutate("set_rotation", s, <<a>>, View_set_rotation(ViewOf(s), a),
              Track("set_rotation", s, <<a>>))

Rotate(As) ==
  /\ Running
  /\ \E s \in Live, a \in As :
       Mutate("rotate", s, <<a>>, View_rotate(ViewOf(s), a),
              Track("rotate", s, <<a>>))

Zoom(Fs) ==
  /\ Running
  /\ \E s \in Live, k \in Fs :
       /\ InRange(ViewOf(s).size[1], k) /\ InRange(ViewOf(s).size[2], k)
       /\ Mutate("zoom", s, <<k>>, View_zoom(ViewOf(s), k),
                 Track("zoom", s, <<k>>))

SetCenter ==
  /\ Running
  /\ \E s \in Live, c \in Points :
       Mutate("set_center", s, c, View_set_center(ViewOf(s), c), <<>>)

SetSize ==
  /\ Running
  /\ \E s \in Live, e \in Extents :
       Mutate("set_size", s, e, View_set_size(ViewOf(s), e), <<>>)

Move ==
  /\ Running
  /\ \E s \in Live, o \in Offsets :
       Mutate("move_", s, o, View_move_(ViewOf(s), o), <<>>)

SetViewport ==
  /\ Running
  /\ \E s \in Live, vp \in Viewports :
       Mutate("set_viewport", s, vp, View_set_viewport(ViewOf(s), vp), <<>>)

Reset ==
  /\ Running
  /\ \E s \in Live, r \in Rects :
       Mutate("reset", s, r, View_reset(ViewOf(s), r), <<>>)

Access(name, s, val) ==
  /\ last' = [op |-> name, self |-> s, out |-> 0, arg |-> <<>>, ok |-> TRUE,
              val |-> val, nat |-> NoBox, pre |-> ViewOf(s)]
  /\ ops' = ops + 1
  /\ trail' = <<>>
  /\ UNCHANGED <<heap, box, alloc, freed, from, unwinding>>

Rotation == Running /\ \E s \in Live : Access("rotation", s, View_rotation(ViewOf(s)))
Center == Running /\ \E s \in Live : Access("center", s, View_center(ViewOf(s)))
Size == Running /\ \E s \in Live : Access("size", s, View_size(ViewOf(s)))
Viewport == Running /\ \E s \in Live : Access("viewport", s, View_viewport(ViewOf(s)))

Next ==
  \/ Default \/ New \/ FromRect \/ ToOwned \/ Clone \/ Drop
  \/ SetRotation(Angles) \/ Rotate(Angles) \/ Zoom(Factors)
  \/ SetCenter \/ SetSize \/ Move \/ SetViewport \/ Reset
  \/ Rotation \/ Center \/ Size \/ Viewport

Spec == Init /\ [][Next]_vars

\* one view, built by View::new and turned by set_rotation, then rotated and
\* zoomed with operands large enough for f32 rounding to act
InitArith ==
  /\ \E e \in ArithExtents, r \in ArithRotations :
       heap = [h \in Handles |->
                 IF h = 1
                 THEN View_set_rotation(View_new(Vec(0, 0), e), r)
                 ELSE Blank]
  /\ box = [s \in Slots |-> IF s = 1 THEN 1 ELSE NoBox]
  /\ alloc = 1
  /\ freed = [h \in Handles |-> 0]
  /\ from = [s \in Slots |-> 0]
  /\ unwinding = FALSE
  /\ ops = 0
  /\ last = NoOp
  /\ trail = <<>>

NextArith ==
  \/ SetRotation(BigAngles) \/ Rotate(BigAngles) \/ Zoom(BigFactors)
  \/ Rotation \/ Size

SpecArith == InitArith /\ [][NextArith]_vars

\* ------------------------------------------------------------ the claims
Ctors == {"default", "new", "from_rect", "to_owned", "clone"}
Mutators == {"set_center", "set_size", "set_rotation", "rotate", "zoom",
             "move_", "set_viewport", "reset"}
Accessors == {"rotation", "center", "size", "viewport"}

\* what the four accessors return for the ViewBox in slot s
Observed(s) ==
  <<View_center(ViewOf(s)), View_size(ViewOf(s)), View_rotation(ViewOf(s)),
    View_viewport(ViewOf(s))>>

Owners(h) == {s \in Slots : box[s] = h}

\* C1: a clone (or to_owned copy) starts with the accessor values of its
\* source, no two ViewBoxes ever hold the same native handle, and a mutator
\* applied to one ViewBox leaves every accessor of every other ViewBox as it was.
C1_CloneIndependence ==
  [][/\ \A a, b \in Slots :
          (last'.op \in {"clone", "to_owned"} /\ last'.ok
              /\ a = last'.self /\ b = last'.out)
            => (Observed(b)' = Observed(a) /\ Observed(a)' = Observed(a)
                  /\ box'[a] # box'[b])
     /\ \A a, b \in Slots :
          (a # b /\ box'[a] # NoBox /\ box'[b] # NoBox) => box'[a] # box'[b]
     /\ \A t \in Slots :
          (last'.op \in Mutators /\ t # last'.self /\ box[t] # NoBox)
            => (box'[t] = box[t] /\ Observed(t)' = Observed(t))
    ]_vars

\* C1 witness: a clone and its source, one of them just moved by set_center,
\* now differ in center.
C1_Witness ==
  /\ last.op = "set_center"
  /\ \E t \in Live :
       /\ t # last.self
       /\ (from[t] = last.self \/ from[last.self] = t)
       /\ View_center(ViewOf(t)) # View_center(ViewOf(last.self))

\* C2: every allocated native view is owned by exactly one live ViewBox and
\* not destroyed, or owned by none and destroyed exactly once; a drop destroys
\* the handle of the ViewBox dropped.
C2_ReleaseOnce ==
  /\ \A h \in Handles :
       /\ freed[h] <= 1
       /\ h <= alloc => Cardinality(Owners(h)) + freed[h] = 1
       /\ h > alloc => (freed[h] = 0 /\ Owners(h) = {})
  /\ last.op = "drop" => freed[last.arg[1]] = 1

\* C2 witness: a view and its clone were allocated, one was dropped and
\* destroyed, the other is still live and not destroyed.
C2_Witness ==
  /\ last.op = "drop"
  /\ alloc >= 2
  /\ \E s \in Live : freed[box[s]] = 0 /\ freed[last.arg[1]] = 1

\* C3: the ViewBox View::new(C, S) returns has center C, size S, rotation 0
\* and the full viewport.
C3_New ==
  (last.op = "new" /\ last.ok) =>
    /\ View_center(ViewOf(last.out)) = <<last.arg[1], last.arg[2]>>
    /\ View_size(ViewOf(last.out)) = <<last.arg[3], last.arg[4]>>
    /\ View_rotation(ViewOf(last.out)) = <<F32(0)>>
    /\ View_viewport(ViewOf(last.out)) = Rect(0, 0, 1, 1)

\* C3 witness: View::new returned a view with a non-zero center and size.
C3_Witness ==
  /\ last.op = "new" /\ last.ok
  /\ View_center(ViewOf(last.out)) = Vec(2, 4)
  /\ View_size(ViewOf(last.out)) = Vec(100, 100)

\* C4: the ViewBox View::from_rect(R) returns has center
\* (left + width/2, top + height/2), size (width, height), rotation 0 and
\* the full viewport.
C4_FromRect ==
  (last.op = "from_rect" /\ last.ok) =>
    /\ View_center(ViewOf(last.out)) =
         <<Sum(last.arg[1], Norm(last.arg[3][1], last.arg[3][2] + 1)),
           Sum(last.arg[2], Norm(last.arg[4][1], last.arg[4][2] + 1))>>
    /\ View_size(ViewOf(last.out)) = <<last.arg[3], last.arg[4]>>
    /\ View_rotation(ViewOf(last.out)) = <<F32(0)>>
    /\ View_viewport(ViewOf(last.out)) = Rect(0, 0, 1, 1)

\* C4 witness: from_rect returned a view for the rectangle (1, 0, 3, 8), of
\* odd width, whose center is (2.5, 4).
C4_Witness ==
  /\ last.op = "from_rect" /\ last.ok
  /\ last.arg = Rect(1, 0, 3, 8)
  /\ View_center(ViewOf(last.out)) = <<<<5, 1>>, F32(4)>>

\* C5 as stated: ViewBox::default() never fails and returns center (0,0),
\* size (0,0), rotation 0, viewport (0,0,1,1).
C5_Original ==
  last.op = "default" =>
    /\ last.ok
    /\ Observed(last.out) =
           <<Vec(0, 0), Vec(0, 0), <<F32(0)>>, Rect(0, 0, 1, 1)>>

\* C5 amended: ViewBox::default() panics exactly when the native create
\* returns null, and otherwise returns center (0,0), size (0,0), rotation 0,
\* viewport (0,0,1,1).
C5_Default ==
  last.op = "default" =>
    /\ last.ok <=> last.nat # Null
    /\ last.ok =>
         Observed(last.out) =
           <<Vec(0, 0), Vec(0, 0), <<F32(0)>>, Rect(0, 0, 1, 1)>>

\* C5 witness: ViewBox::default() returned a view.
C5_Witness ==
  last.op = "default" /\ last.ok /\ last.out \in Live

\* C6: reset(R) sets rotation to 0 whatever it was, sets center and size from
\* R, and leaves the viewport as it was.
C6_Reset ==
  last.op = "reset" =>
    /\ View_rotation(ViewOf(last.self)) = <<F32(0)>>
    /\ View_center(ViewOf(last.self)) =
         <<Sum(last.arg[1], Norm(last.arg[3][1], last.arg[3][2] + 1)),
           Sum(last.arg[2], Norm(last.arg[4][1], last.arg[4][2] + 1))>>
    /\ View_size(ViewOf(last.self)) = <<last.arg[3], last.arg[4]>>
    /\ View_viewport(ViewOf(last.self)) = View_viewport(last.pre)

\* C6 witness: reset acted on a view that was rotated and had a viewport other
\* than the full one.
C6_Witness ==
  /\ last.op = "reset"
  /\ View_rotation(last.pre) # <<F32(0)>>
  /\ View_viewport(last.pre) # Rect(0, 0, 1, 1)
  /\ View_center(last.pre) # View_center(ViewOf(last.self))

\* what the accessor of field f returns
Field(v, f) ==
  CASE f = "center" -> View_center(v)
    [] f = "size" -> View_size(v)
    [] f = "rotation" -> View_rotation(v)
    [] f = "viewport" -> View_viewport(v)

AllFields == {"center", "size", "rotation", "viewport"}

\* the field a mutator other than reset is allowed to change
Target(op) ==
  CASE op \in {"set_center", "move_"} -> "center"
    [] op \in {"set_size", "zoom"} -> "size"
    [] op \in {"set_rotation", "rotate"} -> "rotation"
    [] op = "set_viewport" -> "viewport"

\* C7: set_center and move_ change only center, set_size and zoom only size,
\* set_rotation and rotate only rotation, set_viewport only viewport; the
\* accessors change nothing; the viewport of a ViewBox changes only in a
\* set_viewport on it.
C7_FieldIndependence ==
  [][/\ \A s \in Slots :
          (last'.op \in Mutators \ {"reset"} /\ s = last'.self)
            => \A f \in AllFields \ {Target(last'.op)} :
                 Field(ViewOf(s), f)' = Field(ViewOf(s), f)
     /\ last'.op \in Accessors => UNCHANGED <<heap, box, alloc, freed>>
     /\ \A s \in Slots :
          (box[s] # NoBox /\ box'[s] # NoBox
              /\ View_viewport(ViewOf(s))' # View_viewport(ViewOf(s)))
            => (last'.op = "set_viewport" /\ last'.self = s)
    ]_vars

\* C7 witness: set_size acted on a view whose center, rotation and viewport
\* all differ from a fresh view's.
C7_Witness ==
  /\ last.op = "set_size"
  /\ View_size(ViewOf(last.self)) # View_size(last.pre)
  /\ View_center(last.pre) # Vec(0, 0)
  /\ View_rotation(last.pre) # <<F32(0)>>
  /\ View_viewport(last.pre) # Rect(0, 0, 1, 1)

\* C8: a constructor or copy panics exactly when its native call returns
\* null; the panic builds no ViewBox and changes no view, owner or handle; no
\* ViewBox ever holds the null handle.
C8_AllocationFailure ==
  [][/\ last'.op \in Ctors =>
          /\ last'.ok <=> last'.nat # Null
          /\ ~last'.ok => (last'.out = 0 /\ UNCHANGED <<heap, box, alloc, freed>>)
     /\ \A s \in Slots : box'[s] # Null
    ]_vars

\* C8 witness: a clone failed while its source was live.
C8_Witness ==
  /\ last.op = "clone" /\ ~last.ok
  /\ last.self \in Live
  /\ Cardinality(Live) = 1

\* C9: after rotate(a); rotate(b) on a view of rotation r, rotation() returns
\* r + a + b, not reduced into any range; after set_rotation(x) it returns x.
C9_RotationAdditive ==
  /\ (Len(trail) = 2 /\ trail[1].op = "rotate" /\ trail[2].op = "rotate") =>
       View_rotation(ViewOf(trail[2].self)) =
         <<Sum(Sum(trail[1].pre.rotation, trail[1].arg[1]), trail[2].arg[1])>>
  /\ last.op = "set_rotation" =>
       View_rotation(ViewOf(last.self)) = last.arg

\* C9 witness: two rotations carried a view past a full turn.
C9_Witness ==
  /\ Len(trail) = 2 /\ trail[1].op = "rotate" /\ trail[2].op = "rotate"
  /\ last.op = "rotate"
  /\ View_rotation(ViewOf(last.self)) = <<F32(1050)>>

Exact(n) == RoundF32(n) = n

\* size after one zoom(k) of a view of size sz
Zoomed(sz, k) == <<MulF32(sz[1], k), MulF32(sz[2], k)>>

TwoZooms == Len(trail) = 2 /\ trail[1].op = "zoom" /\ trail[2].op = "zoom"

\* C10 as stated: zoom(1) leaves size unchanged and zoom(k1); zoom(k2) leaves
\* the size a single zoom(k1*k2) leaves.
C10_Original ==
  /\ (last.op = "zoom" /\ last.arg = <<F32(1)>>) =>
       View_size(ViewOf(last.self)) = View_size(last.pre)
  /\ TwoZooms =>
       View_size(ViewOf(last.self)) =
         Zoomed(trail[1].pre.size, MulF32(trail[1].arg[1], trail[2].arg[1]))

\* C10 amended: zoom(k) replaces each size component by its f32 product with
\* k; zoom(1) leaves size unchanged; zoom(k1); zoom(k2) leaves the size a
\* single zoom(k1*k2) leaves whenever k1*k2 and both components times k1 are
\* exactly representable in f32.
C10_Zoom ==
  /\ last.op = "zoom" =>
       View_size(ViewOf(last.self)) = Zoomed(last.pre.size, last.arg[1])
  /\ (last.op = "zoom" /\ last.arg = <<F32(1)>>) =>
       View_size(ViewOf(last.self)) = View_size(last.pre)
  /\ (last.op = "zoom" /\ last.arg = <<F32(2)>>
        /\ last.pre.size = Vec(100, 100)) =>
       View_size(ViewOf(last.self)) = Vec(200, 200)
  /\ (/\ TwoZooms
      /\ Exact(Prod(trail[1].arg[1], trail[2].arg[1]))
      /\ Exact(Prod(trail[1].pre.size[1], trail[1].arg[1]))
      /\ Exact(Prod(trail[1].pre.size[2], trail[1].arg[1]))) =>
       View_size(ViewOf(last.self)) =
         Zoomed(trail[1].pre.size, MulF32(trail[1].arg[1], trail[2].arg[1]))

\* C10 witness: zoom(5); zoom(0.5) took size (3, 5) to (7.5, 12.5), every
\* product exact.
C10_Witness ==
  /\ TwoZooms
  /\ trail[1].arg = <<F32(5)>> /\ trail[2].arg = <<<<1, 1>>>>
  /\ trail[1].pre.size = Vec(3, 5)
  /\ View_size(ViewOf(last.self)) = <<<<15, 1>>, <<25, 1>>>>

====
